---- MODULE Spec2Model ----
(***************************************************************************)
(* Model of scripts/extract_bible_data.py: the book-format parser          *)
(* (extract_books) and the reading-plan extractor (extract_plan).          *)
(*                                                                         *)
(* A text line is a sequence of characters, each character a one-element   *)
(* string; "sup2" stands for U+00B2 SUPERSCRIPT TWO, a character for which *)
(* str.isdigit() is true and int() raises ValueError.                      *)
(***************************************************************************)
EXTENDS Integers, Sequences, FiniteSets

VARIABLES lines, i, books, log, pc, visited, consumed,
          rows, k, plan, current_day, day_items, ppc

vars == <<lines, i, books, log, pc, visited, consumed,
          rows, k, plan, current_day, day_items, ppc>>

booksVars == <<lines, i, books, log, pc, visited, consumed>>
planVars == <<rows, k, plan, current_day, day_items, ppc>>

\* ---------------------------------------------------------------- bounds
MaxChunks == 4
MaxLiveChunks == 3
MaxRows == 3

\* ------------------------------------------------------ string primitives
Whitespace == {" ", "\t", "\n", "\r", "\f"}

DecimalChars == <<"0", "1", "2", "3", "4", "5", "6", "7", "8", "9">>

DecimalSet == {DecimalChars[d] : d \in 1..10}

\* characters c with c.isdigit(): the decimal digits and the superscript digit
DigitSet == DecimalSet \cup {"sup2"}

HexSet == DecimalSet \cup {"a", "b", "c", "d", "e", "f", "A", "B", "C", "D", "E", "F"}

RECURSIVE lstrip(_)
lstrip(s) == IF Len(s) > 0 /\ Head(s) \in Whitespace THEN lstrip(Tail(s)) ELSE s

RECURSIVE rstrip(_)
rstrip(s) == IF Len(s) > 0 /\ s[Len(s)] \in Whitespace
               THEN rstrip(SubSeq(s, 1, Len(s) - 1)) ELSE s

\* str.strip()
strip(s) == rstrip(lstrip(s))

\* '#' followed by exactly six hex digits
HexBody(s) == Len(s) = 7 /\ s[1] = "#" /\ \A x \in 2..7 : s[x] \in HexSet

\* re.match(r'^#[0-9a-fA-F]{6}$', s): '$' also matches before a final newline
IsColor(s) ==
    \/ HexBody(s)
    \/ Len(s) = 8 /\ s[8] = "\n" /\ HexBody(SubSeq(s, 1, 7))

\* str.isdigit(): non-empty and every character is a digit character
isdigit(s) == Len(s) > 0 /\ \A x \in 1..Len(s) : s[x] \in DigitSet

\* int(s) raises ValueError unless every character is a decimal digit
IntRaises(s) == \E x \in 1..Len(s) : s[x] \notin DecimalSet

DigitVal(c) == (CHOOSE d \in 1..10 : DecimalChars[d] = c) - 1

\* int(s) for a string of decimal digits, base 10
RECURSIVE int(_)
int(s) == IF Len(s) = 0 THEN 0
          ELSE 10 * int(SubSeq(s, 1, Len(s) - 1)) + DigitVal(s[Len(s)])

\* ------------------------------------------------------------ input lines
LColor == <<" ", "#", "1", "A", "2", "b", "3", "C", "\n">>
LColor2 == <<"#", "0", "0", "f", "F", "0", "0", "\r", "\n">>
LNum7 == <<"7", "\n">>
LNum07 == <<" ", "0", "7", "\n">>
LNum12 == <<"1", "2", "\n">>
LBad == <<"sup2", "\n">>
LGen == <<"G", "e", "n", "\n">>
LHash == <<"#", "1", "A", "2", "B", "3", "\n">>
LShortRu == <<"\t", "B", "y", "t", "\n">>
LLongRu == <<"B", "y", "t", "i", "e", " ", "\n">>
LLongEn == <<"G", "e", "n", "e", "s", "i", "s", "\n">>

Tail4 == <<LShortRu, LLongRu, LHash, LLongEn>>
BlockA == <<LColor, LNum7>> \o Tail4
BlockB == <<LColor2, LNum07, LLongEn, LHash, LLongRu, LShortRu>>
BlockC == <<LColor, LNum12>> \o Tail4

\* pieces the input file is assembled from
Chunks == << <<LColor>>, <<LNum7>>, <<LGen>>, <<LBad>>, Tail4, BlockA, BlockB, BlockC >>

RECURSIVE Flatten(_)
Flatten(cs) == IF Len(cs) = 0 THEN <<>> ELSE Chunks[Head(cs)] \o Flatten(Tail(cs))

\* lines[x] of the source, 0-based
Line(x) == lines[x + 1]

NumLines == Len(lines)

\* --------------------------------------------------------- extract_books
\* the six-line window starting at p lies inside the file
InBounds(p) == ~(p + 5 >= NumLines)

\* variant: short_en and long_en read from each other's line
BookRecordSwapped(p) ==
    [book_number |-> int(strip(Line(p + 1))),
     color       |-> strip(Line(p)),
     short_ru    |-> strip(Line(p + 2)),
     long_ru     |-> strip(Line(p + 3)),
     short_en    |-> strip(Line(p + 5)),
     long_en     |-> strip(Line(p + 4))]

\* the record built from the block at p
BookRecord(p) ==
    [book_number |-> int(strip(Line(p + 1))),
     color       |-> strip(Line(p)),
     short_ru    |-> strip(Line(p + 2)),
     long_ru     |-> strip(Line(p + 3)),
     short_en    |-> strip(Line(p + 4)),
     long_en     |-> strip(Line(p + 5))]

\* variant: books.setdefault(n, rec), the first record under a key is kept
PutIfAbsent(b, n, rec) == [x \in DOMAIN b \cup {n} |-> IF x \in DOMAIN b THEN b[x] ELSE rec]

\* books[n] = rec
Put(b, n, rec) == [x \in DOMAIN b \cup {n} |-> IF x = n THEN rec ELSE b[x]]

\* print(f"Extracted {len(books)} books.")
Extracted == [msg |-> "extracted", n |-> Cardinality(DOMAIN books)]

InitBooksState(ls) ==
    /\ lines = ls
    /\ i = 0
    /\ books = <<>>
    /\ log = <<>>
    /\ pc = "scan"
    /\ visited = {}
    /\ consumed = <<>>

IdleBooks ==
    /\ lines = <<>>
    /\ i = 0
    /\ books = <<>>
    /\ log = <<>>
    /\ pc = "idle"
    /\ visited = {}
    /\ consumed = <<>>

\* the line at i is not a color line: fall through to i += 1
NotColor ==
    /\ pc = "scan"
    /\ i < NumLines
    /\ ~IsColor(strip(Line(i)))
    /\ i' = i + 1
    /\ visited' = visited \cup {i}
    /\ UNCHANGED <<lines, books, log, pc, consumed>>

\* variant: the truncated block is passed over and the scan goes on
TruncatedContinue ==
    /\ pc = "scan"
    /\ i < NumLines
    /\ IsColor(strip(Line(i)))
    /\ ~InBounds(i)
    /\ i' = i + 1
    /\ visited' = visited \cup {i}
    /\ UNCHANGED <<lines, books, log, pc, consumed>>

\* color line with fewer than six lines left: break, then print and return
Truncated ==
    /\ pc = "scan"
    /\ i < NumLines
    /\ IsColor(strip(Line(i)))
    /\ ~InBounds(i)
    /\ pc' = "done"
    /\ log' = Append(log, Extracted)
    /\ visited' = visited \cup {i}
    /\ UNCHANGED <<lines, i, books, consumed>>

\* variant: the false positive consumes six lines
SkipSixLines ==
    /\ pc = "scan"
    /\ i < NumLines
    /\ IsColor(strip(Line(i)))
    /\ InBounds(i)
    /\ ~isdigit(strip(Line(i + 1)))
    /\ i' = i + 6
    /\ visited' = visited \cup {i}
    /\ UNCHANGED <<lines, books, log, pc, consumed>>

\* variant: continue without i += 1
SkipNoAdvance ==
    /\ pc = "scan"
    /\ i < NumLines
    /\ IsColor(strip(Line(i)))
    /\ InBounds(i)
    /\ ~isdigit(strip(Line(i + 1)))
    /\ visited' = visited \cup {i}
    /\ UNCHANGED <<lines, i, books, log, pc, consumed>>

\* color line whose next line is not numeric: i += 1; continue
SkipNonNumeric ==
    /\ pc = "scan"
    /\ i < NumLines
    /\ IsColor(strip(Line(i)))
    /\ InBounds(i)
    /\ ~isdigit(strip(Line(i + 1)))
    /\ i' = i + 1
    /\ visited' = visited \cup {i}
    /\ UNCHANGED <<lines, books, log, pc, consumed>>

\* variant: no except clause, the ValueError leaves the function
ParseErrorPropagates ==
    /\ pc = "scan"
    /\ i < NumLines
    /\ IsColor(strip(Line(i)))
    /\ InBounds(i)
    /\ isdigit(strip(Line(i + 1)))
    /\ IntRaises(strip(Line(i + 1)))
    /\ pc' = "raised"
    /\ visited' = visited \cup {i}
    /\ UNCHANGED <<lines, i, books, log, consumed>>

\* int(number_line) raises: except clause prints, then i += 1
ParseError ==
    /\ pc = "scan"
    /\ i < NumLines
    /\ IsColor(strip(Line(i)))
    /\ InBounds(i)
    /\ isdigit(strip(Line(i + 1)))
    /\ IntRaises(strip(Line(i + 1)))
    /\ log' = Append(log, [msg |-> "error", n |-> i])
    /\ i' = i + 1
    /\ visited' = visited \cup {i}
    /\ UNCHANGED <<lines, books, pc, consumed>>

\* a block is parsed and stored: books[book_number] = {...}; i += 6; continue
StoreBlock ==
    /\ pc = "scan"
    /\ i < NumLines
    /\ IsColor(strip(Line(i)))
    /\ InBounds(i)
    /\ isdigit(strip(Line(i + 1)))
    /\ ~IntRaises(strip(Line(i + 1)))
    /\ books' = Put(books, BookRecord(i).book_number, BookRecord(i))
    /\ i' = i + 6
    /\ visited' = visited \cup {i}
    /\ consumed' = Append(consumed, i)
    /\ UNCHANGED <<lines, log, pc>>

\* the while condition fails: print and return
ScanEnd ==
    /\ pc = "scan"
    /\ ~(i < NumLines)
    /\ pc' = "done"
    /\ log' = Append(log, Extracted)
    /\ UNCHANGED <<lines, i, books, visited, consumed>>

\* ---------------------------------------------------------- extract_plan
NoDay == -1

Days == {-2, -1, 0, 1}
Items == {1, 2}

\* evening, book_number, start_chapter, start_verse, end_chapter, end_verse
Payloads == {<<0, 40, 1, 1, 1, 5>>, <<1, 41, 2, 3, 4, 6>>}

\* the rows of table reading_plan
RowSet ==
    {[day |-> d, evening |-> pl[1], item |-> it, book_number |-> pl[2],
      start_chapter |-> pl[3], start_verse |-> pl[4],
      end_chapter |-> pl[5], end_verse |-> pl[6]] :
        d \in Days, it \in Items, pl \in Payloads}

\* ORDER BY day, item
OrderedByDayItem(rs) ==
    \A x \in 1..(Len(rs) - 1) :
        \/ rs[x].day < rs[x + 1].day
        \/ rs[x].day = rs[x + 1].day /\ rs[x].item <= rs[x + 1].item

\* the dict appended to day_items for a row
Reading(row) ==
    [book_number   |-> row.book_number,
     start_chapter |-> row.start_chapter,
     start_verse   |-> row.start_verse,
     end_chapter   |-> row.end_chapter,
     end_verse     |-> row.end_verse]

\* variant: day_items.insert(0, {...})
AddReadingFront(items, row) == <<Reading(row)>> \o items

\* day_items.append({...})
AddReading(items, row) == Append(items, Reading(row))

\* the dict appended to plan
DayPlan(d, items) == [day |-> d, readings |-> items]

\* rows[k], the row the for loop is at (k rows done)
Row == rows[k + 1]

InitPlanState(rs) ==
    /\ rows = rs
    /\ k = 0
    /\ plan = <<>>
    /\ current_day = NoDay
    /\ day_items = <<>>
    /\ ppc = "rows"

IdlePlan ==
    /\ rows = <<>>
    /\ k = 0
    /\ plan = <<>>
    /\ current_day = NoDay
    /\ day_items = <<>>
    /\ ppc = "idle"

\* variant: the buffer is not reset after the flush
RowFlushKeepBuffer ==
    /\ ppc = "rows"
    /\ k < Len(rows)
    /\ Row.day # current_day
    /\ current_day # NoDay
    /\ plan' = Append(plan, DayPlan(current_day, day_items))
    /\ current_day' = Row.day
    /\ day_items' = AddReading(day_items, Row)
    /\ k' = k + 1
    /\ UNCHANGED <<rows, ppc>>

\* variant: the flushed DayPlan is labelled with the new row's day
RowFlushNewDay ==
    /\ ppc = "rows"
    /\ k < Len(rows)
    /\ Row.day # current_day
    /\ current_day # NoDay
    /\ plan' = Append(plan, DayPlan(Row.day, day_items))
    /\ current_day' = Row.day
    /\ day_items' = AddReading(<<>>, Row)
    /\ k' = k + 1
    /\ UNCHANGED <<rows, ppc>>

\* day != current_day and current_day != -1: flush, start a new buffer, append
RowFlush ==
    /\ ppc = "rows"
    /\ k < Len(rows)
    /\ Row.day # current_day
    /\ current_day # NoDay
    /\ plan' = Append(plan, DayPlan(current_day, day_items))
    /\ current_day' = Row.day
    /\ day_items' = AddReading(<<>>, Row)
    /\ k' = k + 1
    /\ UNCHANGED <<rows, ppc>>

\* day != current_day and current_day == -1: start a new buffer, append
RowNoFlush ==
    /\ ppc = "rows"
    /\ k < Len(rows)
    /\ Row.day # current_day
    /\ current_day = NoDay
    /\ current_day' = Row.day
    /\ day_items' = AddReading(<<>>, Row)
    /\ k' = k + 1
    /\ UNCHANGED <<rows, plan, ppc>>

\* day == current_day: append to the buffer
RowSame ==
    /\ ppc = "rows"
    /\ k < Len(rows)
    /\ Row.day = current_day
    /\ day_items' = AddReading(day_items, Row)
    /\ k' = k + 1
    /\ UNCHANGED <<rows, plan, current_day, ppc>>

\* after the loop: flush a non-empty buffer, return
PlanEnd ==
    /\ ppc = "rows"
    /\ k = Len(rows)
    /\ plan' = IF day_items # <<>>
                 THEN Append(plan, DayPlan(current_day, day_items))
                 ELSE plan
    /\ ppc' = "done"
    /\ UNCHANGED <<rows, k, current_day, day_items>>

\* ---------------------------------------------------------- specification
\* the file read by extract_books: up to MaxChunks pieces
InitBooks ==
    /\ \E n \in 0..MaxChunks :
          \E cs \in [1..n -> 1..Len(Chunks)] : InitBooksState(Flatten(cs))
    /\ IdlePlan

\* the rows fetched by extract_plan: up to MaxRows rows in query order
InitPlan ==
    /\ \E n \in 0..MaxRows :
          \E rs \in [1..n -> RowSet] : OrderedByDayItem(rs) /\ InitPlanState(rs)
    /\ IdleBooks

\* the two functions share no state; a behaviour runs one of them
Init == InitBooks \/ InitPlan

Next ==
    \/ NotColor /\ UNCHANGED planVars
    \/ Truncated /\ UNCHANGED planVars
    \/ SkipNonNumeric /\ UNCHANGED planVars
    \/ ParseError /\ UNCHANGED planVars
    \/ StoreBlock /\ UNCHANGED planVars
    \/ ScanEnd /\ UNCHANGED planVars
    \/ RowFlush /\ UNCHANGED booksVars
    \/ RowNoFlush /\ UNCHANGED booksVars
    \/ RowSame /\ UNCHANGED booksVars
    \/ PlanEnd /\ UNCHANGED booksVars

Spec == Init /\ [][Next]_vars

\* extract_books alone, on files of up to MaxLiveChunks pieces
LiveInit ==
    /\ \E n \in 0..MaxLiveChunks :
          \E cs \in [1..n -> 1..Len(Chunks)] : InitBooksState(Flatten(cs))
    /\ IdlePlan

NextBooks ==
    \/ NotColor /\ UNCHANGED planVars
    \/ Truncated /\ UNCHANGED planVars
    \/ SkipNonNumeric /\ UNCHANGED planVars
    \/ ParseError /\ UNCHANGED planVars
    \/ StoreBlock /\ UNCHANGED planVars
    \/ ScanEnd /\ UNCHANGED planVars

\* the interpreter keeps executing a loop that can take a step
LiveSpec == LiveInit /\ [][NextBooks]_vars /\ WF_vars(NextBooks)

\* ------------------------------------------------- properties: extract_books
\* a well-formed six-line block starts at p: trimmed line p is '#' plus six
\* hex digits, trimmed line p+1 is a decimal integer, lines p+2..p+5 exist
WellFormed(p) ==
    /\ p >= 0
    /\ p + 5 < NumLines
    /\ HexBody(strip(Line(p)))
    /\ Len(strip(Line(p + 1))) > 0
    /\ \A x \in 1..Len(strip(Line(p + 1))) : strip(Line(p + 1))[x] \in DecimalSet

\* the integer on the number line of the block at p
NumberAt(p) == int(strip(Line(p + 1)))

\* what the claims expect the record of the block at p to be
Expected(p) ==
    [book_number |-> NumberAt(p),
     color       |-> strip(Line(p)),
     short_ru    |-> strip(Line(p + 2)),
     long_ru     |-> strip(Line(p + 3)),
     short_en    |-> strip(Line(p + 4)),
     long_en     |-> strip(Line(p + 5))]

Positions == 0..(NumLines - 1)

ConsumedSet == {consumed[x] : x \in 1..Len(consumed)}

\* the scan is at a color line with six lines left whose next line is not numeric
AtNonNumeric ==
    /\ pc = "scan" /\ i < NumLines
    /\ IsColor(strip(Line(i))) /\ i + 5 < NumLines
    /\ ~isdigit(strip(Line(i + 1)))

\* position s was a color line with six lines left whose next line is not numeric
WasNonNumeric(s) ==
    /\ s \in visited
    /\ IsColor(strip(Line(s))) /\ s + 5 < NumLines
    /\ ~isdigit(strip(Line(s + 1)))

\* the scan is at a color line with fewer than six lines left
AtTruncated ==
    /\ pc = "scan" /\ i < NumLines
    /\ IsColor(strip(Line(i))) /\ i + 5 >= NumLines

\* the scan is at a block whose number line passes isdigit but int() rejects
AtParseError ==
    /\ pc = "scan" /\ i < NumLines
    /\ IsColor(strip(Line(i))) /\ i + 5 < NumLines
    /\ isdigit(strip(Line(i + 1)))
    /\ \E x \in 1..Len(strip(Line(i + 1))) : strip(Line(i + 1))[x] = "sup2"

\* C1 as stated: every well-formed block of the input, wherever it starts,
\* has its record in the returned mapping under its number, with its fields.
C1_EveryWellFormedBlockRecorded ==
    pc = "done" =>
        \A p \in Positions :
            WellFormed(p) =>
                /\ NumberAt(p) \in DOMAIN books
                /\ books[NumberAt(p)] = Expected(p)

\* C1 amended: every well-formed block the scan position reaches has a record
\* in the returned mapping under its number n with book_number n, and the
\* record's fields are the trimmed lines of that block unless a block reached
\* later carries the same number.
C1_ReachedBlockRecorded ==
    pc = "done" =>
        \A p \in visited :
            WellFormed(p) =>
                /\ NumberAt(p) \in DOMAIN books
                /\ books[NumberAt(p)].book_number = NumberAt(p)
                /\ (\A q \in visited :
                        q > p /\ WellFormed(q) => NumberAt(q) # NumberAt(p))
                      => books[NumberAt(p)] = Expected(p)

\* a block after the first line, with surrounding whitespace trimmed, is returned
C1_Witness ==
    /\ pc = "done"
    /\ \E p \in visited :
          /\ p > 0 /\ WellFormed(p)
          /\ Line(p) # strip(Line(p))
          /\ books[NumberAt(p)] = Expected(p)

\* C6 as stated: at a color line with six lines left and a non-numeric next
\* line nothing is stored and the scan moves to i+1, and every well-formed
\* block starting at i+1..i+5 is examined and recorded.
C6_SkipThenAllFollowingBlocksRecorded ==
    /\ [][AtNonNumeric => (i' = i + 1 /\ books' = books /\ consumed' = consumed)]_vars
    /\ [](pc = "done" =>
            \A s \in visited :
                WasNonNumeric(s) =>
                    \A p \in (s + 1)..(s + 5) :
                        WellFormed(p) => p \in ConsumedSet)

\* C6 amended: at a color line with six lines left and a non-numeric next
\* line nothing is stored and the scan moves to i+1, and a well-formed block
\* starting at p in i+1..i+5 is examined and recorded unless a block consumed
\* from a position between i+1 and p-1 covers it.
C6_SkipThenUncoveredBlocksRecorded ==
    /\ [][AtNonNumeric => (i' = i + 1 /\ books' = books /\ consumed' = consumed)]_vars
    /\ [](pc = "done" =>
            \A s \in visited :
                WasNonNumeric(s) =>
                    \A p \in (s + 1)..(s + 5) :
                        WellFormed(p) =>
                            \/ p \in ConsumedSet
                            \/ \E q \in ConsumedSet : s < q /\ q < p)

\* a false-positive color line was skipped and a block starting within the
\* next five lines was recorded
C6_Witness ==
    /\ pc = "done"
    /\ \E s \in visited :
          /\ WasNonNumeric(s)
          /\ \E p \in (s + 1)..(s + 5) : WellFormed(p) /\ p \in ConsumedSet

\* C7: a color line with fewer than six lines left ends the scan: the function
\* returns without raising, no record is added and the mapping is unchanged.
C7_TruncatedBlockStops ==
    [][AtTruncated =>
         (pc' = "done" /\ books' = books /\ consumed' = consumed /\ i' = i)]_vars

\* returned through the bounds check with records stored before it
C7_Witness ==
    /\ pc = "done"
    /\ i < NumLines
    /\ IsColor(strip(Line(i)))
    /\ i + 5 >= NumLines
    /\ DOMAIN books # {}

\* C8: the mapping holds under each key the record of the block consumed last
\* with that number, and storing a block leaves the other keys' records alone.
C8_LastDuplicateWins ==
    /\ [](\A n \in DOMAIN books :
            \E x \in 1..Len(consumed) :
                /\ NumberAt(consumed[x]) = n
                /\ \A y \in (x + 1)..Len(consumed) : NumberAt(consumed[y]) # n
                /\ books[n] = Expected(consumed[x]))
    /\ [][\A n \in DOMAIN books :
            (consumed' # consumed /\ NumberAt(i) # n) =>
                (n \in DOMAIN books' /\ books'[n] = books[n])]_vars

\* two consumed blocks with the same number and different fields, and a
\* record under another key stored before them
C8_Witness ==
    /\ pc = "done"
    /\ \E x, y, z \in 1..Len(consumed) :
          /\ x < y /\ y < z
          /\ NumberAt(consumed[y]) = NumberAt(consumed[z])
          /\ Expected(consumed[y]) # Expected(consumed[z])
          /\ NumberAt(consumed[x]) # NumberAt(consumed[z])
          /\ books[NumberAt(consumed[x])] = Expected(consumed[x])

\* C9: when int() raises on the number line the exception is caught: nothing
\* is stored, the scan resumes at i+1, the function never ends by raising,
\* and the mapping holds only records of blocks that parsed.
C9_ParseErrorCaught ==
    /\ [][AtParseError =>
            (pc' = "scan" /\ i' = i + 1 /\ books' = books /\ consumed' = consumed)]_vars
    /\ [](pc # "raised")
    /\ [](\A n \in DOMAIN books :
            \E p \in ConsumedSet : WellFormed(p) /\ books[n] = Expected(p))

\* an error was logged for a block and a later block was stored
C9_Witness ==
    /\ pc = "done"
    /\ \E x \in 1..Len(log) :
          /\ log[x].msg = "error"
          /\ \E p \in ConsumedSet : p > log[x].n

\* C10: every iteration of the scan loop either moves the index forward by 1
\* or by 6 or leaves the loop, and the loop terminates.
C10_ScanTerminates ==
    /\ [][pc = "scan" =>
            \/ pc' = "scan" /\ i' \in {i + 1, i + 6}
            \/ pc' = "done" /\ i' = i]_vars
    /\ (pc = "scan" ~> pc = "done")

\* a scan that skipped a false positive and then stored a block has ended
C10_Witness ==
    /\ pc = "done"
    /\ \E s \in visited : WasNonNumeric(s)
    /\ consumed # <<>>

\* ------------------------------------------------- properties: extract_plan
\* the day values that occur in the input rows
InputDays == {rows[x].day : x \in 1..Len(rows)}

\* the input rows of day d, in query order
RowsOfDay(d) == SelectSeq(rows, LAMBDA r : r.day = d)

\* number of positions of sequence q that hold v
Count(q, v) == Cardinality({x \in 1..Len(q) : q[x] = v})

\* C2: the returned plan has one DayPlan per distinct day value of the input,
\* whatever integers the day values are.
C2_OneDayPlanPerDistinctDay ==
    ppc = "done" =>
        /\ Len(plan) = Cardinality(InputDays)
        /\ \A d \in InputDays : \E x \in 1..Len(plan) : plan[x].day = d

\* C3: each returned DayPlan holds as many readings as the input has rows of
\* that day, and its readings are the fields of exactly those rows, none
\* dropped, duplicated or taken from another day.
C3_ReadingsAreRowsOfDay ==
    ppc = "done" =>
        \A x \in 1..Len(plan) :
            LET dayRows == RowsOfDay(plan[x].day)
                want == [y \in 1..Len(dayRows) |-> Reading(dayRows[y])]
            IN /\ Len(plan[x].readings) = Len(dayRows)
               /\ \A y \in 1..Len(want) :
                     Count(plan[x].readings, want[y]) = Count(want, want[y])

\* two days returned, one of them with two different readings
C3_Witness ==
    /\ ppc = "done"
    /\ Len(plan) >= 2
    /\ \E x \in 1..Len(plan) :
          /\ Len(plan[x].readings) = 2
          /\ plan[x].readings[1] # plan[x].readings[2]

\* C4: the readings of each returned DayPlan stand in the order of that day's
\* rows in the query result, which is ascending in item.
C4_ReadingsInItemOrder ==
    ppc = "done" =>
        \A x \in 1..Len(plan) :
            LET dayRows == RowsOfDay(plan[x].day)
            IN /\ \A y \in 1..Len(plan[x].readings) :
                     y <= Len(dayRows) /\ plan[x].readings[y] = Reading(dayRows[y])
               /\ \A y, z \in 1..Len(dayRows) :
                     y < z => dayRows[y].item <= dayRows[z].item

\* a returned day whose two rows have different items and different readings
C4_Witness ==
    /\ ppc = "done"
    /\ \E x \in 1..Len(plan) :
          LET dayRows == RowsOfDay(plan[x].day)
          IN /\ Len(dayRows) = 2
             /\ dayRows[1].item < dayRows[2].item
             /\ Reading(dayRows[1]) # Reading(dayRows[2])
             /\ Len(plan[x].readings) = 2

\* C5: the day fields of the plan sequence are strictly ascending, after
\* every iteration of the grouping loop and in the returned sequence.
C5_DaysStrictlyAscending ==
    \A x, y \in 1..Len(plan) : x < y => plan[x].day < plan[y].day

\* two days already flushed while the loop is still running
C5_Witness ==
    /\ ppc = "rows"
    /\ Len(plan) >= 2
====
